---- MODULE Spec2Model ----
(***************************************************************************)
(* Model of mesonbuild/compilers/cuda.py: the CudaCompiler adapter.        *)
(*                                                                         *)
(* A Python str is modelled as a sequence of one-character strings, so     *)
(* that prefix tests, slicing, replace and concatenation are computed the  *)
(* way the code computes them.  A list of str is a sequence of those.      *)
(***************************************************************************)
EXTENDS Integers, Sequences, FiniteSets, TLC

\* ------------------------------------------------------------------ bounds
\* Longest argument list handed to _cook_link_args / _to_host_flags directly.
MaxArgs == 2
\* How many times a caller feeds a translated flag back into _to_host_flag.
MaxReapply == 2
\* Number of sanity_check invocations on the one adapter.
MaxProbes == 2
\* Child processes exit with a code in 0..MaxReturnCode.
MaxReturnCode == 1

\* ------------------------------------------------------------ str helpers
\* s[:n]
Take(s, n) == SubSeq(s, 1, IF n < Len(s) THEN n ELSE Len(s))

\* s[n:]
Drop(s, n) == SubSeq(s, n + 1, Len(s))

\* s.startswith(p)
StartsWith(s, p) == Len(s) >= Len(p) /\ SubSeq(s, 1, Len(p)) = p

\* s.replace(c, r) for a one-character c: every occurrence is replaced.
RECURSIVE ReplaceChar(_, _, _)
ReplaceChar(s, c, r) ==
    IF s = <<>> THEN <<>>
    ELSE (IF Head(s) = c THEN r ELSE <<Head(s)>>) \o ReplaceChar(Tail(s), c, r)

\* ------------------------------------------------------------------ _Phase
COMPILER == "compiler"
LINKER == "linker"
_Phase == {COMPILER, LINKER}

\* phase.value spelled out as a str
PhaseValue(phase) ==
    IF phase = COMPILER
    THEN <<"c", "o", "m", "p", "i", "l", "e", "r">>
    ELSE <<"l", "i", "n", "k", "e", "r">>

\* CudaCompiler._universal_flags
_universal_flags(phase) ==
    IF phase = COMPILER
    THEN {<<"-", "I">>, <<"-", "D">>, <<"-", "U">>, <<"-", "E">>}
    ELSE {<<"-", "l">>, <<"-", "L">>}

\* What evaluating flag[0] on the empty str produces: the call raises
\* IndexError instead of returning a str.  The marker is not a str of the
\* model (its one element is not a single character).
IndexError == <<"IndexError">>

\* '-X{}={}'.format(phase.value, flag)
WrapFlag(flag, phase) == <<"-", "X">> \o PhaseValue(phase) \o <<"=">> \o flag

\* Mutant: a translator that leaves an already wrapped flag alone.
_to_host_flag_idempotent(flag, phase) ==
    IF flag = <<>> THEN IndexError
    ELSE IF ~(flag[1] \in {"-", "/"}) \/ Take(flag, 2) \in _universal_flags(phase)
              \/ StartsWith(flag, <<"-", "X">> \o PhaseValue(phase) \o <<"=">>)
         THEN flag
         ELSE WrapFlag(flag, phase)

\* CudaCompiler._to_host_flag
_to_host_flag(flag, phase) ==
    IF flag = <<>> THEN IndexError
    ELSE IF ~(flag[1] \in {"-", "/"}) \/ Take(flag, 2) \in _universal_flags(phase)
         THEN flag
         ELSE WrapFlag(flag, phase)

\* The result of a call on a list when one element's translation raised:
\* the comprehension is abandoned and the exception propagates.
ListIndexError == <<IndexError>>

\* CudaCompiler._to_host_flags
_to_host_flags(flags, phase) ==
    IF \E i \in 1..Len(flags) : _to_host_flag(flags[i], phase) = IndexError
    THEN ListIndexError
    ELSE [i \in 1..Len(flags) |-> _to_host_flag(flags[i], phase)]

\* '-Wl,'
WlPrefix == <<"-", "W", "l", ",">>

\* if arg.startswith('-Wl,'): arg = arg.replace('-Wl,', '', 1)
StripWl(arg) == IF StartsWith(arg, WlPrefix) THEN Drop(arg, Len(WlPrefix)) ELSE arg

\* arg.replace(' ', '\\'): the replacement is the one character backslash.
EscapeWhitespace(arg) == ReplaceChar(arg, " ", <<"\\">>)

\* CudaCompiler._cook_link_args
_cook_link_args(args) ==
    _to_host_flags([i \in 1..Len(args) |-> EscapeWhitespace(StripWl(args[i]))], LINKER)

\* ------------------------------------------------------------ input sets
\* Exit codes a child process can end with.
ReturnCodes == 0..MaxReturnCode

\* What the test program can print on standard-out: nothing, one device
\* ("7.5\n"), or text that is not a major.minor line.
Stdouts == {<<>>, <<"7", ".", "5", "\n">>, <<" ", "7", "5">>}

\* What it can print on standard-error: nothing, or a cudaError_t ("3\n").
Stderrs == {<<>>, <<"3", "\n">>}

\* exe_wrapper is None, or an ExternalProgram.
None == "None"
ExeWrappers == {None, "exe_wrapper"}

\* The attribute detected_cc does not exist before the first sanity_check.
\* The marker is not a str of the model.
Unset == <<"unset">>

\* Warning levels of the host compiler's warn_args table.
WarnLevels == {"0", "1", "2", "3"}

\* Two host compilers' warn_args tables: a GNU-like one (-Wall, -Wextra,
\* -Wpedantic) and an MSVC-like one (/W2, /W3, /W4).
GnuWarnArgs ==
    [level \in WarnLevels |->
        CASE level = "0" -> <<>>
          [] level = "1" -> << <<"-", "W", "a", "l", "l">> >>
          [] level = "2" -> << <<"-", "W", "a", "l", "l">>, <<"-", "W", "e", "x", "t", "r", "a">> >>
          [] OTHER -> << <<"-", "W", "a", "l", "l">>, <<"-", "W", "e", "x", "t", "r", "a">>,
                         <<"-", "W", "p", "e", "d", "a", "n", "t", "i", "c">> >>]

MsvcWarnArgs ==
    [level \in WarnLevels |->
        CASE level = "0" -> <<>>
          [] level = "1" -> << <<"/", "W", "2">> >>
          [] level = "2" -> << <<"/", "W", "3">> >>
          [] OTHER -> << <<"/", "W", "4">> >>]

HostWarnTables == {GnuWarnArgs, MsvcWarnArgs}

\* EnvironmentException messages, and no exception.
NoException == "none"
CompileError == "Compiler {0} can not compile programs."
RunError == "Executables created by {0} compiler {1} are not runnable."

\* ------------------------------------------------------------------- state
VARIABLES
    is_cross,         \* self.is_cross
    exe_wrapper,      \* self.exe_wrapper
    host_warn_args,   \* self.host_compiler.warn_args
    warn_args,        \* self.warn_args
    detected_cc,      \* self.detected_cc
    pc,               \* position inside sanity_check: idle, compile, run
    nprobes,          \* sanity_check invocations started so far
    spawned,          \* child processes of the current invocation, in order
    stdo,             \* local stdo of sanity_check
    stde,             \* local stde of sanity_check
    exception,        \* what the last sanity_check raised
    op,               \* the query operation whose result the caller holds
    arg,              \* its argument (for a delegating query: the host's answer)
    phase,            \* its phase argument
    ret,              \* its return value
    napply            \* how often the flag in arg has been through _to_host_flag

adapterVars == <<is_cross, exe_wrapper, host_warn_args, warn_args>>
probeVars == <<detected_cc, pc, nprobes, spawned, stdo, stde, exception>>
queryVars == <<op, arg, phase, ret, napply>>
vars == <<is_cross, exe_wrapper, host_warn_args, warn_args,
          detected_cc, pc, nprobes, spawned, stdo, stde, exception,
          op, arg, phase, ret, napply>>

\* CudaCompiler.__init__: the warn table is translated once, eagerly.
MakeWarnArgs(host_table) ==
    [level \in DOMAIN host_table |-> _to_host_flags(host_table[level], COMPILER)]

Init ==
    /\ is_cross \in BOOLEAN
    /\ exe_wrapper \in ExeWrappers
    /\ host_warn_args \in HostWarnTables
    /\ warn_args = MakeWarnArgs(host_warn_args)
    /\ detected_cc = Unset
    /\ pc = "idle"
    /\ nprobes = 0
    /\ spawned = <<>>
    /\ stdo = <<>>
    /\ stde = <<>>
    /\ exception = NoException
    /\ op = "none"
    /\ arg = <<>>
    /\ phase = COMPILER
    /\ ret = <<>>
    /\ napply = 0

\* ------------------------------------------------------------ sanity_check
\* Mutant: the reset of the cache at the start of the probe is missing.
SanityCheckBegin_NoReset ==
    /\ pc = "idle"
    /\ op = "none"
    /\ nprobes < MaxProbes
    /\ nprobes' = nprobes + 1
    /\ spawned' = <<>>
    /\ stdo' = <<>>
    /\ stde' = <<>>
    /\ exception' = NoException
    /\ pc' = "compile"
    /\ UNCHANGED <<detected_cc, adapterVars, queryVars>>

\* sanity_check up to the compile command line: the source file is written
\* and self.detected_cc is set to ''.
SanityCheckBegin ==
    /\ pc = "idle"
    /\ op = "none"
    /\ nprobes < MaxProbes
    /\ nprobes' = nprobes + 1
    /\ detected_cc' = <<>>
    /\ spawned' = <<>>
    /\ stdo' = <<>>
    /\ stde' = <<>>
    /\ exception' = NoException
    /\ pc' = "compile"
    /\ UNCHANGED <<adapterVars, queryVars>>

\* Mutant: the compile step's exit code is not looked at.
CompileFailed_Ignored(returncode) == FALSE

\* if pc.returncode != 0: raise EnvironmentException
CompileFailed(returncode) == returncode # 0

\* Mutant: the wrapper test is inverted (is not None).
SkipsRun_Inverted(cross, wrapper) == cross /\ wrapper # None

\* if self.is_cross: if self.exe_wrapper is None: return
SkipsRun(cross, wrapper) == cross /\ wrapper = None

\* The compile child: Popen_safe(cmdlist), its exit code test, and the
\* decision whether the binary can be run.
CompileStep ==
    /\ pc = "compile"
    /\ \E returncode \in ReturnCodes, e \in Stderrs :
        /\ spawned' = Append(spawned, [cmd |-> "compile", returncode |-> returncode])
        /\ stdo' = <<>>
        /\ stde' = e
        /\ IF CompileFailed(returncode)
           THEN exception' = CompileError /\ pc' = "idle"
           ELSE /\ exception' = exception
                /\ pc' = IF SkipsRun(is_cross, exe_wrapper) THEN "idle" ELSE "run"
    /\ UNCHANGED <<detected_cc, nprobes, adapterVars, queryVars>>

\* Mutant: only a negative exit code (a signal) counts as a failed run.
RunFailed_Negative(returncode) == returncode < 0

\* if pe.returncode != 0: raise EnvironmentException
RunFailed(returncode) == returncode # 0

\* Mutant: standard-out is cached whatever standard-error holds.
InterpretResult_IgnoresStderr(cc, out, err) == out

\* if stde == '': self.detected_cc = stdo   (else: only a debug log)
InterpretResult(cc, out, err) == IF err = <<>> THEN out ELSE cc

\* The execute child: Popen_safe(cmdlist), pe.wait(), its exit code test,
\* and the interpretation of its output.
RunStep ==
    /\ pc = "run"
    /\ \E returncode \in ReturnCodes, o \in Stdouts, e \in Stderrs :
        /\ spawned' = Append(spawned, [cmd |-> "execute", returncode |-> returncode])
        /\ stdo' = o
        /\ stde' = e
        /\ IF RunFailed(returncode)
           THEN exception' = RunError /\ detected_cc' = detected_cc
           ELSE exception' = exception /\ detected_cc' = InterpretResult(detected_cc, o, e)
    /\ pc' = "idle"
    /\ UNCHANGED <<nprobes, adapterVars, queryVars>>

\* ------------------------------------------------- inputs of the queries
\* Arguments a host compiler hands back for linking: '' , 'a b' (a path with
\* a space), '-Wl,-z', '-Wl,-Wl,' (a second group prefix), '-lm'.
LinkArgs ==
    { <<>>,
      <<"a", " ", "b">>,
      <<"-", "W", "l", ",", "-", "z">>,
      <<"-", "W", "l", ",", "-", "W", "l", ",">>,
      <<"-", "l", "m">> }

\* Flags given to the translator: the link arguments, and '-', 'x', '-Ix',
\* '-L/a b', '-O', '/Zi'.
Flags ==
    LinkArgs \cup
    { <<"-">>,
      <<"x">>,
      <<"-", "I", "x">>,
      <<"-", "L", "/", "a", " ", "b">>,
      <<"-", "O">>,
      <<"/", "Z", "i">> }

\* Argument lists of at most MaxArgs link arguments.
ArgLists == UNION {[1..n -> LinkArgs] : n \in 0..MaxArgs}

\* What a host compiler answers to a flag query: nothing, ['-pthread'],
\* ['-Wl,-z', '-lm'], ['/DEBUG', 'a b'].
HostAnswers ==
    { <<>>,
      << <<"-", "p", "t", "h", "r", "e", "a", "d">> >>,
      << <<"-", "W", "l", ",", "-", "z">>, <<"-", "l", "m">> >>,
      << <<"/", "D", "E", "B", "U", "G">>, <<"a", " ", "b">> >> }

\* What the host answers to get_crt_compile_args: nothing, ['/MD'], ['/MT'].
HostCrtCompileArgs ==
    { <<>>, << <<"/", "M", "D">> >>, << <<"/", "M", "T">> >> }

\* ------------------------------------------------ translator and cooker calls
\* A caller translates one raw flag: _to_host_flag(flag, phase).
ToHostFlag ==
    /\ pc = "idle"
    /\ op = "none"
    /\ \E f \in Flags, p \in _Phase :
        /\ op' = "_to_host_flag"
        /\ arg' = f
        /\ phase' = p
        /\ ret' = _to_host_flag(f, p)
        /\ napply' = 1
    /\ UNCHANGED <<adapterVars, probeVars>>

\* A caller feeds the flag it got back into _to_host_flag, same phase.
ToHostFlagAgain ==
    /\ pc = "idle"
    /\ op = "_to_host_flag"
    /\ ret # IndexError
    /\ napply <= MaxReapply
    /\ arg' = ret
    /\ ret' = _to_host_flag(ret, phase)
    /\ napply' = napply + 1
    /\ UNCHANGED <<op, phase, adapterVars, probeVars>>

\* _to_host_flags(flags, phase)
ToHostFlags ==
    /\ pc = "idle"
    /\ op = "none"
    /\ \E flags \in ArgLists, p \in _Phase :
        /\ op' = "_to_host_flags"
        /\ arg' = flags
        /\ phase' = p
        /\ ret' = _to_host_flags(flags, p)
    /\ napply' = 0
    /\ UNCHANGED <<adapterVars, probeVars>>

\* _cook_link_args(args)
CookLinkArgs ==
    /\ pc = "idle"
    /\ op = "none"
    /\ \E args \in ArgLists :
        /\ op' = "_cook_link_args"
        /\ arg' = args
        /\ ret' = _cook_link_args(args)
    /\ phase' = LINKER
    /\ napply' = 0
    /\ UNCHANGED <<adapterVars, probeVars>>

\* ------------------------------------------------------ delegating queries
\* Each operator takes what the host compiler (or the base class) answered.

\* CudaCompiler.thread_link_flags: _to_host_flags with its default phase.
thread_link_flags(host) == _to_host_flags(host, COMPILER)

\* CudaCompiler.get_option_link_args
get_option_link_args(host) == _cook_link_args(host)

\* CudaCompiler.get_soname_args
get_soname_args(host) == _cook_link_args(host)

\* CudaCompiler.get_link_debugfile_args
get_link_debugfile_args(host) == _cook_link_args(host)

\* CudaCompiler.get_buildtype_linker_args
get_buildtype_linker_args(host) == _cook_link_args(host)

\* CudaCompiler.build_rpath_args: the rpath_args half of the pair.
build_rpath_args(host) == _cook_link_args(host)

\* CudaCompiler.get_std_exe_link_args
get_std_exe_link_args(host) == _cook_link_args(host)

\* CudaCompiler.get_target_link_args
get_target_link_args(host) == _cook_link_args(host)

\* CudaCompiler.get_dependency_link_args
get_dependency_link_args(host) == _cook_link_args(host)

\* host_link_arg_overrides of get_crt_link_args: /NODEFAULTLIB:LIBCMT.lib
\* when the host's crt compile args hold /MDd, /MD or /MTd.
NoDefaultLib ==
    <<"/", "N", "O", "D", "E", "F", "A", "U", "L", "T", "L", "I", "B", ":",
      "L", "I", "B", "C", "M", "T", ".", "l", "i", "b">>

host_link_arg_overrides(host_crt_compile_args) ==
    IF \E i \in 1..Len(host_crt_compile_args) :
           host_crt_compile_args[i] \in
               {<<"/", "M", "D", "d">>, <<"/", "M", "D">>, <<"/", "M", "T", "d">>}
    THEN <<NoDefaultLib>>
    ELSE <<>>

\* CudaCompiler.get_crt_link_args
get_crt_link_args(host_crt_compile_args, host) ==
    _cook_link_args(host_link_arg_overrides(host_crt_compile_args) \o host)

\* CudaCompiler.get_compile_debugfile_args
get_compile_debugfile_args(host) == _to_host_flags(host, COMPILER)

\* CudaCompiler.get_pic_args
get_pic_args(host) == _to_host_flags(host, COMPILER)

\* CudaCompiler.get_crt_compile_args
get_crt_compile_args(host) == _to_host_flags(host, COMPILER)

\* CudaCompiler.get_dependency_compile_args
get_dependency_compile_args(host) == _to_host_flags(host, COMPILER)

\* The link-phase queries answered from one host sequence.
LinkQueries ==
    { "thread_link_flags", "get_option_link_args", "get_soname_args",
      "get_link_debugfile_args", "get_buildtype_linker_args", "build_rpath_args",
      "get_std_exe_link_args", "get_target_link_args", "get_dependency_link_args" }

\* The compile-phase queries answered from one host sequence.
CompileQueries ==
    { "get_compile_debugfile_args", "get_pic_args", "get_crt_compile_args",
      "get_dependency_compile_args" }

\* Method dispatch by name.
CallQuery(name, host) ==
    CASE name = "thread_link_flags" -> thread_link_flags(host)
      [] name = "get_option_link_args" -> get_option_link_args(host)
      [] name = "get_soname_args" -> get_soname_args(host)
      [] name = "get_link_debugfile_args" -> get_link_debugfile_args(host)
      [] name = "get_buildtype_linker_args" -> get_buildtype_linker_args(host)
      [] name = "build_rpath_args" -> build_rpath_args(host)
      [] name = "get_std_exe_link_args" -> get_std_exe_link_args(host)
      [] name = "get_target_link_args" -> get_target_link_args(host)
      [] name = "get_dependency_link_args" -> get_dependency_link_args(host)
      [] name = "get_compile_debugfile_args" -> get_compile_debugfile_args(host)
      [] name = "get_pic_args" -> get_pic_args(host)
      [] name = "get_crt_compile_args" -> get_crt_compile_args(host)
      [] name = "get_dependency_compile_args" -> get_dependency_compile_args(host)

\* A link-phase query: the host is asked, its answer post-processed.
LinkQuery ==
    /\ pc = "idle"
    /\ op = "none"
    /\ \E name \in LinkQueries, host \in HostAnswers :
        /\ op' = name
        /\ arg' = host
        /\ ret' = CallQuery(name, host)
    /\ phase' = LINKER
    /\ napply' = 0
    /\ UNCHANGED <<adapterVars, probeVars>>

\* get_crt_link_args: arg records the sequence handed on for post-processing,
\* the overrides followed by the host's crt link args.
CrtLinkQuery ==
    /\ pc = "idle"
    /\ op = "none"
    /\ \E crt \in HostCrtCompileArgs, host \in HostAnswers :
        /\ op' = "get_crt_link_args"
        /\ arg' = host_link_arg_overrides(crt) \o host
        /\ ret' = get_crt_link_args(crt, host)
    /\ phase' = LINKER
    /\ napply' = 0
    /\ UNCHANGED <<adapterVars, probeVars>>

\* A compile-phase query.
CompileQuery ==
    /\ pc = "idle"
    /\ op = "none"
    /\ \E name \in CompileQueries, host \in HostAnswers :
        /\ op' = name
        /\ arg' = host
        /\ ret' = CallQuery(name, host)
    /\ phase' = COMPILER
    /\ napply' = 0
    /\ UNCHANGED <<adapterVars, probeVars>>

\* Mutant: the table is translated again, in place, on every query.
get_warn_args_Retranslating ==
    /\ pc = "idle"
    /\ op = "none"
    /\ \E level \in WarnLevels :
        /\ op' = "get_warn_args"
        /\ arg' = level
        /\ warn_args' = [warn_args EXCEPT ![level] = _to_host_flags(@, COMPILER)]
        /\ ret' = warn_args'[level]
    /\ phase' = COMPILER
    /\ napply' = 0
    /\ UNCHANGED <<is_cross, exe_wrapper, host_warn_args, probeVars>>

\* CudaCompiler.get_warn_args
get_warn_args ==
    /\ pc = "idle"
    /\ op = "none"
    /\ \E level \in WarnLevels :
        /\ op' = "get_warn_args"
        /\ arg' = level
        /\ ret' = warn_args[level]
    /\ phase' = COMPILER
    /\ napply' = 0
    /\ UNCHANGED <<adapterVars, probeVars>>

\* The caller is done with the result of a query: the call record is
\* dropped, and the next operation can be called.
QueryReturn ==
    /\ op # "none"
    /\ op' = "none"
    /\ arg' = <<>>
    /\ phase' = COMPILER
    /\ ret' = <<>>
    /\ napply' = 0
    /\ UNCHANGED <<adapterVars, probeVars>>

Next ==
    \/ SanityCheckBegin
    \/ CompileStep
    \/ RunStep
    \/ ToHostFlag
    \/ ToHostFlagAgain
    \/ ToHostFlags
    \/ CookLinkArgs
    \/ LinkQuery
    \/ CrtLinkQuery
    \/ CompileQuery
    \/ get_warn_args
    \/ QueryReturn

Spec == Init /\ [][Next]_vars

\* ================================================================== claims
\* The compile child and the execute child of the current invocation.
CompileProc == spawned[1]
ExecuteProc == spawned[2]
ProbeDone == pc = "idle" /\ nprobes > 0

\* ------------------------------------------------------------------- C1
\* C1 (as stated): once a sanity_check has returned with detected_cc set,
\* no later operation on the adapter resets or overwrites it.
C1_NeverOverwritten ==
    [][(pc = "idle" /\ detected_cc # Unset) => detected_cc' = detected_cc]_vars

\* C1 (amended): detected_cc is never unset again once set; it changes only
\* at the start of a sanity_check, which resets it to '', and in a run step
\* that exits 0 with empty standard-error, which replaces that '' by the
\* captured standard-out.
C1_ResetThenWrittenOnce ==
    [][ /\ detected_cc # Unset => detected_cc' # Unset
        /\ detected_cc' # detected_cc =>
              \/ pc = "idle" /\ pc' = "compile" /\ detected_cc' = <<>>
              \/ /\ pc = "run" /\ pc' = "idle"
                 /\ detected_cc = <<>>
                 /\ exception' = NoException
                 /\ stde' = <<>>
                 /\ detected_cc' = stdo' ]_vars

\* A second invocation has run to its end and cached a capability.
C1_Witness ==
    /\ ProbeDone
    /\ nprobes >= 2
    /\ detected_cc = <<"7", ".", "5", "\n">>

\* ------------------------------------------------------------------- C2
\* C2: a finished probe has raised EnvironmentException exactly when the
\* compile child exited nonzero or the execute child was run and exited
\* nonzero; the message is the compile message in the first case and the
\* not-runnable message in the second; no child is spawned twice.
C2_FatalIffChildFailed ==
    ProbeDone =>
        /\ exception # NoException <=>
              \/ CompileProc.returncode # 0
              \/ Len(spawned) = 2 /\ ExecuteProc.returncode # 0
        /\ CompileProc.returncode # 0 => exception = CompileError
        /\ (Len(spawned) = 2 /\ ExecuteProc.returncode # 0) => exception = RunError
        /\ Cardinality({i \in 1..Len(spawned) : spawned[i].cmd = "compile"}) = 1
        /\ Cardinality({i \in 1..Len(spawned) : spawned[i].cmd = "execute"}) <= 1

\* A probe whose execute child exited nonzero.
C2_Witness ==
    /\ ProbeDone
    /\ Len(spawned) = 2
    /\ ExecuteProc.returncode # 0
    /\ exception = RunError

\* ------------------------------------------------------------------- C3
\* C3: the children of an invocation are one compile process first, then at
\* most one execute process, and the execute process exists only if the
\* compile process exited 0.
C3_CompileThenExecute ==
    /\ Len(spawned) <= 2
    /\ Len(spawned) >= 1 => CompileProc.cmd = "compile"
    /\ Len(spawned) = 2 => ExecuteProc.cmd = "execute" /\ CompileProc.returncode = 0
    /\ pc = "run" => Len(spawned) = 1 /\ CompileProc.returncode = 0
    /\ pc = "compile" => spawned = <<>>
    /\ ProbeDone => Len(spawned) >= 1
    /\ (ProbeDone /\ CompileProc.returncode # 0) => Len(spawned) = 1

\* Both children were spawned.
C3_Witness ==
    /\ ProbeDone
    /\ Len(spawned) = 2
    /\ CompileProc.cmd = "compile"
    /\ ExecuteProc.cmd = "execute"

\* ------------------------------------------------------------------- C4
\* C4: cross-compiling without an execution wrapper, a probe whose compile
\* child exits 0 returns normally with detected_cc = '' and has spawned no
\* execute process.
C4_CrossNoWrapper ==
    /\ (is_cross /\ exe_wrapper = None) => pc # "run"
    /\ (ProbeDone /\ is_cross /\ exe_wrapper = None /\ CompileProc.returncode = 0) =>
          /\ exception = NoException
          /\ detected_cc = <<>>
          /\ Len(spawned) = 1

\* A cross, wrapper-less probe whose compile succeeded.
C4_Witness ==
    /\ ProbeDone
    /\ is_cross
    /\ exe_wrapper = None
    /\ CompileProc.returncode = 0

\* ------------------------------------------------------------------- C5
\* C5: after a probe whose compile and execute children both exited 0,
\* detected_cc is the captured standard-out, character for character, when
\* the captured standard-error is empty, and '' otherwise; the probe has
\* raised nothing.
C5_CapabilityVerbatim ==
    (ProbeDone /\ Len(spawned) = 2 /\ CompileProc.returncode = 0
              /\ ExecuteProc.returncode = 0) =>
        /\ exception = NoException
        /\ stde = <<>> => detected_cc = stdo
        /\ stde # <<>> => detected_cc = <<>>

\* A probe that printed "7.5\n" and nothing on standard-error.
C5_Witness ==
    /\ ProbeDone
    /\ Len(spawned) = 2
    /\ ExecuteProc.returncode = 0
    /\ stde = <<>>
    /\ stdo = <<"7", ".", "5", "\n">>
    /\ detected_cc = <<"7", ".", "5", "\n">>

\* ------------------------------------------------------------------- C6
\* C6: for every str that does not start with '-' or '/', the empty str
\* included, _to_host_flag returns the str unchanged and raises nothing.
C6_PositionalUnchanged ==
    (op = "_to_host_flag" /\ (arg = <<>> \/ ~(arg[1] \in {"-", "/"}))) =>
        /\ ret # IndexError
        /\ ret = arg

\* ------------------------------------------------------------------- C7
\* The wrapping prefix written out: '-Xcompiler=' and '-Xlinker='.
C7_Prefix(p) ==
    IF p = COMPILER
    THEN <<"-", "X", "c", "o", "m", "p", "i", "l", "e", "r", "=">>
    ELSE <<"-", "X", "l", "i", "n", "k", "e", "r", "=">>

\* C7: a flag that starts with '-' or '/' and whose first two characters
\* are not universal for the phase comes back as '-X<phase>=' + flag, which
\* differs from the flag, and translating that result again wraps it a
\* second time; a flag whose first two characters are universal for the
\* phase comes back unchanged.
C7_WrapNotIdempotent ==
    (op = "_to_host_flag" /\ arg # <<>>) =>
        /\ (arg[1] \in {"-", "/"} /\ ~(Take(arg, 2) \in _universal_flags(phase))) =>
              /\ ret = C7_Prefix(phase) \o arg
              /\ ret # arg
              /\ _to_host_flag(ret, phase) = C7_Prefix(phase) \o ret
              /\ _to_host_flag(ret, phase) # ret
        /\ Take(arg, 2) \in _universal_flags(phase) => ret = arg

\* '-O' translated twice for the compile phase: '-Xcompiler=-Xcompiler=-O'.
C7_Witness ==
    /\ op = "_to_host_flag"
    /\ napply = 2
    /\ phase = COMPILER
    /\ ret = C7_Prefix(COMPILER) \o C7_Prefix(COMPILER) \o <<"-", "O">>

\* ------------------------------------------------------------------- C8
\* The escaped-space sequence of the claim: a backslash, then the space.
C8_EscapeSpaces(a) == ReplaceChar(a, " ", <<"\\", " ">>)

\* C8: _cook_link_args keeps length and order, and its i-th element is
\* args[i] with a leading '-Wl,' removed once, every space replaced by an
\* escaped space, then translated for the link phase.  Stated for lists
\* without an empty argument.
C8_CookElementwise ==
    (op = "_cook_link_args" /\ \A i \in 1..Len(arg) : arg[i] # <<>>) =>
        /\ Len(ret) = Len(arg)
        /\ \A i \in 1..Len(arg) :
              ret[i] = _to_host_flag(C8_EscapeSpaces(StripWl(arg[i])), LINKER)

\* ------------------------------------------------------------------- C9
\* C9: every link-phase delegating query returns the delegated sequence
\* passed through _cook_link_args, and every compile-phase delegating query
\* returns it translated for the compile phase.
C9_LinkQueriesCooked ==
    /\ op \in LinkQueries \cup {"get_crt_link_args"} => ret = _cook_link_args(arg)
    /\ op \in CompileQueries => ret = _to_host_flags(arg, COMPILER)

\* ------------------------------------------------------------------ C10
\* C10: no operation changes is_cross, exe_wrapper, the host compiler's
\* table or warn_args; warn_args is the host table translated for the
\* compile phase, and get_warn_args(level) returns the host's flags for the
\* level, each wrapped exactly once.
C10_TableInv ==
    /\ \A level \in WarnLevels :
          warn_args[level] = _to_host_flags(host_warn_args[level], COMPILER)
    /\ op = "get_warn_args" =>
          /\ Len(ret) = Len(host_warn_args[arg])
          /\ \A i \in 1..Len(ret) : ret[i] = C7_Prefix(COMPILER) \o host_warn_args[arg][i]

C10_FrameAndWarnTable ==
    [][ /\ is_cross' = is_cross
        /\ exe_wrapper' = exe_wrapper
        /\ host_warn_args' = host_warn_args
        /\ warn_args' = warn_args
        /\ C10_TableInv' ]_vars

\* get_warn_args('3') answered after two probes, the flags wrapped once.
C10_Witness ==
    /\ op = "get_warn_args"
    /\ arg = "3"
    /\ nprobes = 2
    /\ host_warn_args = GnuWarnArgs
    /\ Len(ret) = 3
    /\ ret[1] = <<"-", "X", "c", "o", "m", "p", "i", "l", "e", "r", "=", "-", "W", "a", "l", "l">>

====
